---- MODULE Spec2Model ----
(***************************************************************************)
(* Model of src/src/Index.py (glyculator): the threshold-taking glycemic   *)
(* variability indices and the hypoglycemic event scan.                    *)
(*                                                                         *)
(* One behaviour is one evaluation over a bound (df, calc_config) pair     *)
(* with one set of per-call arguments: either a single call of one of the  *)
(* vectorised indices, or the two event-scan indices (GVhypo_events_count  *)
(* and GVmean_hypo_event_duration), whose `for record in hypoglycemias`    *)
(* loops are stepped one sample at a time over the same series.            *)
(***************************************************************************)
EXTENDS Integers, Sequences, FiniteSets

VARIABLES
    df,          \* self.df[GLUCOSE]: the bound series of readings
    calc_config, \* self.calc_config
    threshold,   \* the call's argument `threshold`
    duration,    \* the call's argument `hypo_event_records_threshold_duration`
    pc,          \* per index: "idle" | "loop" | "done"
    i,           \* number of records the event-scan loops have consumed
    ec,          \* locals of GVhypo_events_count.calculate
    md,          \* locals of GVmean_hypo_event_duration.calculate
    ret,         \* per index: the value returned or the exception raised
    touched      \* the indices whose call has evaluated self.df[GLUCOSE]

vars == <<df, calc_config, threshold, duration, pc, i, ec, md, ret, touched>>

(***************************************************************************)
(* Bounds of the model.                                                    *)
(***************************************************************************)
MaxLen == 4      \* longest enumerated series
MaxAppend == 2   \* most samples appended when a series is extended

(***************************************************************************)
(* Python values. A number is the rational v/d with its Python type; the   *)
(* float nan is 0/0. An exception raised by a call is recorded as a value  *)
(* whose type is the exception's class.                                    *)
(***************************************************************************)
PyVal(t, v, d, s) == [type |-> t, v |-> v, d |-> d, s |-> s]
PyInt(n)      == PyVal("int", n, 1, "")
PyFloat(n, d) == PyVal("float", n, d, "")
PyNaN         == PyVal("float", 0, 0, "")
PyStr(s)      == PyVal("str", 0, 1, s)
PyNone        == PyVal("NoneType", 0, 1, "")
Raised(cls)   == PyVal(cls, 0, 1, "")
Pending       == PyVal("pending", 0, 1, "")

IsNumber(x) == x.type \in {"int", "float"}
IsNaN(x)    == x.type = "float" /\ x.d = 0
IsRaise(x)  == x.type \in {"ValueError", "TypeError"}

(***************************************************************************)
(* Glucose readings: a finite value, or the missing-reading sentinel nan.  *)
(***************************************************************************)
Reading(x) == [nan |-> FALSE, v |-> x]
NaN        == [nan |-> TRUE, v |-> 0]

Glucose == {Reading(45), Reading(55), Reading(60), NaN}

RECURSIVE SeqsUpTo(_, _)
SeqsUpTo(S, n) ==
    IF n = 0 THEN {<<>>}
    ELSE LET shorter == SeqsUpTo(S, n - 1)
         IN  shorter \cup {Append(s, x) : s \in {t \in shorter : Len(t) = n - 1}, x \in S}

\* The series of the event-segmentation example.
ExampleSeries ==
    [k \in 1..18 |->
        IF k <= 3 THEN Reading(50)
        ELSE IF k <= 5 THEN Reading(60)
        ELSE IF k <= 17 THEN Reading(45)
        ELSE Reading(60)]

\* A series with closed runs of 1, 2 and 3 samples (the last closed by a
\* missing reading) and an open run at its end.
ThreeRunSeries ==
    <<Reading(45), Reading(60), Reading(45), Reading(45), Reading(60),
      Reading(45), Reading(45), Reading(45), NaN, Reading(45)>>

\* The series of the time-in-hypoglycemia example.
TimeInHypoSeries == <<Reading(60), Reading(80), Reading(60), Reading(80)>>

SeriesSet == SeqsUpTo(Glucose, MaxLen) \cup {ExampleSeries, ThreeRunSeries, TimeInHypoSeries}

Configs ==
    { [unit |-> "mg",   interval |-> 5, mage_moving_average_window_size |-> PyInt(9)],
      [unit |-> "mmol", interval |-> 3, mage_moving_average_window_size |-> PyInt(9)] }

Thresholds == {PyInt(55), PyInt(70), PyInt(-5), PyFloat(55, 1)}

Durations  == {PyInt(0), PyInt(5), PyInt(15), PyInt(-5), PyFloat(15, 1), PyStr("15")}

Indices == {"GVhypoglycemia", "GVhyperglycemia", "GVtime_in_hypo", "GVm100",
            "GVmage", "GVhypo_events_count", "GVmean_hypo_event_duration"}

Vectorised == {"GVhypoglycemia", "GVhyperglycemia", "GVtime_in_hypo", "GVm100", "GVmage"}

EventIndices == {"GVhypo_events_count", "GVmean_hypo_event_duration"}

(***************************************************************************)
(* Helpers shared by the indices.                                          *)
(***************************************************************************)
\* `type(x) != int` is the only validation the calculate methods perform.
TypeIsInt(x) == x.type = "int"

\* `self.df[GLUCOSE] < threshold`: element-wise, a nan reading compares False.
LessThan(series, t) == [k \in DOMAIN series |-> (~series[k].nan) /\ series[k].v < t]

\* `self.df[GLUCOSE] > threshold`: element-wise, a nan reading compares False.
GreaterThan(series, t) == [k \in DOMAIN series |-> (~series[k].nan) /\ series[k].v > t]

\* np.nansum over a boolean mask: the number of True entries.
RECURSIVE nansum(_)
nansum(mask) ==
    IF Len(mask) = 0 THEN 0
    ELSE (IF Head(mask) THEN 1 ELSE 0) + nansum(Tail(mask))

RECURSIVE SumSeq(_)
SumSeq(s) == IF Len(s) = 0 THEN 0 ELSE Head(s) + SumSeq(Tail(s))

\* np.nanmean over a list of ints: nan (with a warning) for the empty list.
nanmean(s) == IF Len(s) = 0 THEN PyNaN ELSE PyFloat(SumSeq(s), Len(s))

\* float * number: nan stays nan.
Times(x, n) == IF IsNaN(x) THEN PyNaN ELSE PyFloat(x.v * n, x.d)

\* `hypo_event_records_threshold_duration / self.calc_config.interval`: Python
\* true division, kept as the exact quotient num/den (den > 0).
TrueDiv(x, n) == [num |-> x.v, den |-> x.d * n]

\* Fault variant: the comparison is not strict.
ExceedsAtLeast(n, q) == n * q.den >= q.num
\* `current_hypo_records > hypo_event_records_threshold`.
Exceeds(n, q) == n * q.den > q.num

\* `self.calc_config == "mg"`: a CalcConfig object compared with a str.
CalcConfigEqStr(cfg, s) == FALSE

Call(r, reads) == [ret |-> r, reads |-> reads]

(***************************************************************************)
(* The vectorised indices.                                                 *)
(***************************************************************************)
\* Fault variant: a reading equal to the threshold counts as hypoglycemia.
GVhypoglycemia_inclusive(series, thr) ==
    IF ~TypeIsInt(thr) THEN Call(Raised("ValueError"), FALSE)
    ELSE Call(PyInt(nansum([k \in DOMAIN series |->
                               (~series[k].nan) /\ series[k].v <= thr.v])), TRUE)
\* GVhypoglycemia.calculate.
GVhypoglycemia_calculate(series, thr) ==
    IF ~TypeIsInt(thr) THEN Call(Raised("ValueError"), FALSE)
    ELSE Call(PyInt(nansum(LessThan(series, thr.v))), TRUE)

\* GVhyperglycemia.calculate.
GVhyperglycemia_calculate(series, thr) ==
    IF ~TypeIsInt(thr) THEN Call(Raised("ValueError"), FALSE)
    ELSE Call(PyInt(nansum(GreaterThan(series, thr.v))), TRUE)

\* Fault variant: the count of samples is not converted to minutes.
GVtime_in_hypo_unscaled(series, cfg, thr) ==
    IF ~TypeIsInt(thr) THEN Call(Raised("ValueError"), FALSE)
    ELSE Call(PyInt(nansum(LessThan(series, thr.v))), TRUE)
\* GVtime_in_hypo.calculate.
GVtime_in_hypo_calculate(series, cfg, thr) ==
    IF ~TypeIsInt(thr) THEN Call(Raised("ValueError"), FALSE)
    ELSE Call(PyInt(nansum(LessThan(series, thr.v)) * cfg.interval), TRUE)

\* Neither `if` of GVm100.calculate holds, and the method falls off its end.
GVm100_calculate(series, cfg) ==
    IF CalcConfigEqStr(cfg, "mg") THEN Call(PyVal("float", 0, 1, "m100"), TRUE)
    ELSE IF CalcConfigEqStr(cfg, "mmol") THEN Call(PyVal("float", 0, 1, "m100"), TRUE)
    ELSE Call(PyNone, FALSE)

\* GVmage._moving_average: arr is always the pandas Series calculate built,
\* so only the window's type check can fail, then np.convolve, which raises
\* ValueError on an empty array.
GVmage_moving_average(arr, window) ==
    IF ~TypeIsInt(window) THEN Raised("ValueError")
    ELSE IF Len(arr) = 0 THEN Raised("ValueError")
    ELSE PyVal("ndarray", 0, 1, "")

GVmage_calculate(series, cfg) ==
    LET smoothed == GVmage_moving_average(series, cfg.mage_moving_average_window_size)
    IN  IF IsRaise(smoothed) THEN Call(smoothed, TRUE)
        ELSE Call(PyStr("mage-placeholder"), TRUE)

(***************************************************************************)
(* GVhypo_events_count.calculate.                                          *)
(***************************************************************************)
EC_Unset ==
    [hypoglycemias |-> <<>>, hypo_event_records_threshold |-> [num |-> 0, den |-> 1],
     current_hypo_records |-> 0, total_hypo_event_count |-> 0]

\* Only the threshold's type is checked; the duration is used as passed.
EC_Validate(thr, dur) ==
    IF ~TypeIsInt(thr) THEN Raised("ValueError") ELSE PyNone

\* The division `duration / interval` raises TypeError for a str duration; it
\* runs after the mask has been computed from the series.
EC_Divide(dur) == IF IsNumber(dur) THEN PyNone ELSE Raised("TypeError")

EC_Start(series, cfg, thr, dur) ==
    [hypoglycemias |-> LessThan(series, thr.v),
     hypo_event_records_threshold |-> TrueDiv(dur, cfg.interval),
     current_hypo_records |-> 0, total_hypo_event_count |-> 0]

\* Fault variant: a run as long as the threshold is counted too.
EC_Body_inclusive(st, record) ==
    IF record
    THEN [st EXCEPT !.current_hypo_records = @ + 1]
    ELSE [st EXCEPT
            !.total_hypo_event_count =
                IF ExceedsAtLeast(st.current_hypo_records, st.hypo_event_records_threshold)
                THEN @ + 1 ELSE @,
            !.current_hypo_records = 0]
\* One iteration of `for record in hypoglycemias`.
EC_Body(st, record) ==
    IF record
    THEN [st EXCEPT !.current_hypo_records = @ + 1]
    ELSE [st EXCEPT
            !.total_hypo_event_count =
                IF Exceeds(st.current_hypo_records, st.hypo_event_records_threshold)
                THEN @ + 1 ELSE @,
            !.current_hypo_records = 0]

\* Fault variant: the run still open at the end of the series is evaluated too.
EC_Return_closing(st) ==
    PyInt(st.total_hypo_event_count
          + (IF Exceeds(st.current_hypo_records, st.hypo_event_records_threshold)
             THEN 1 ELSE 0))
\* `return total_hypo_event_count`: the open run is dropped.
EC_Return(st) == PyInt(st.total_hypo_event_count)

RECURSIVE EC_Loop(_, _)
EC_Loop(st, k) ==
    IF k > Len(st.hypoglycemias) THEN st
    ELSE EC_Loop(EC_Body(st, st.hypoglycemias[k]), k + 1)

\* The whole call, as a function of its inputs.
GVhypo_events_count_calculate(series, cfg, thr, dur) ==
    IF IsRaise(EC_Validate(thr, dur)) THEN Call(EC_Validate(thr, dur), FALSE)
    ELSE IF IsRaise(EC_Divide(dur)) THEN Call(EC_Divide(dur), TRUE)
    ELSE Call(EC_Return(EC_Loop(EC_Start(series, cfg, thr, dur), 1)), TRUE)

(***************************************************************************)
(* GVmean_hypo_event_duration.calculate.                                   *)
(***************************************************************************)
MD_Unset ==
    [hypoglycemias |-> <<>>, hypo_event_records_threshold |-> [num |-> 0, den |-> 1],
     current_hypo_records |-> 0, total_hypo_event_count |-> 0,
     hypo_events_duration |-> <<>>]

\* Both arguments' types are checked, the threshold first.
MD_Validate(thr, dur) ==
    IF ~TypeIsInt(thr) THEN Raised("ValueError")
    ELSE IF ~TypeIsInt(dur) THEN Raised("ValueError")
    ELSE PyNone

MD_Start(series, cfg, thr, dur) ==
    [hypoglycemias |-> LessThan(series, thr.v),
     hypo_event_records_threshold |-> TrueDiv(dur, cfg.interval),
     current_hypo_records |-> 0, total_hypo_event_count |-> 0,
     hypo_events_duration |-> <<>>]

\* Fault variant: the run counter is not reset when a run closes.
MD_Body_no_reset(st, record) ==
    IF record
    THEN [st EXCEPT !.current_hypo_records = @ + 1]
    ELSE [st EXCEPT
            !.total_hypo_event_count =
                IF Exceeds(st.current_hypo_records, st.hypo_event_records_threshold)
                THEN @ + 1 ELSE @,
            !.hypo_events_duration =
                IF Exceeds(st.current_hypo_records, st.hypo_event_records_threshold)
                THEN Append(@, st.current_hypo_records) ELSE @]
\* One iteration of `for record in hypoglycemias`.
MD_Body(st, record) ==
    IF record
    THEN [st EXCEPT !.current_hypo_records = @ + 1]
    ELSE [st EXCEPT
            !.total_hypo_event_count =
                IF Exceeds(st.current_hypo_records, st.hypo_event_records_threshold)
                THEN @ + 1 ELSE @,
            !.hypo_events_duration =
                IF Exceeds(st.current_hypo_records, st.hypo_event_records_threshold)
                THEN Append(@, st.current_hypo_records) ELSE @,
            !.current_hypo_records = 0]

\* Fault variant: an empty episode list averages to 0 instead of nan.
MD_Return_zero(st, cfg) ==
    IF Len(st.hypo_events_duration) = 0 THEN PyFloat(0, 1)
    ELSE Times(nanmean(st.hypo_events_duration), cfg.interval)
\* `return np.nanmean(hypo_events_duration) * self.calc_config.interval`.
MD_Return(st, cfg) == Times(nanmean(st.hypo_events_duration), cfg.interval)

RECURSIVE MD_Loop(_, _)
MD_Loop(st, k) ==
    IF k > Len(st.hypoglycemias) THEN st
    ELSE MD_Loop(MD_Body(st, st.hypoglycemias[k]), k + 1)

\* The locals of the call when its loop has finished.
MD_Final(series, cfg, thr, dur) == MD_Loop(MD_Start(series, cfg, thr, dur), 1)

\* The whole call, as a function of its inputs.
GVmean_hypo_event_duration_calculate(series, cfg, thr, dur) ==
    IF IsRaise(MD_Validate(thr, dur)) THEN Call(MD_Validate(thr, dur), FALSE)
    ELSE Call(MD_Return(MD_Final(series, cfg, thr, dur), cfg), TRUE)

(***************************************************************************)
(* The state machine.                                                      *)
(***************************************************************************)
Init ==
    /\ df \in SeriesSet
    /\ calc_config \in Configs
    /\ threshold \in Thresholds
    /\ duration \in Durations
    /\ pc = [x \in Indices |-> "idle"]
    /\ i = 0
    /\ ec = EC_Unset
    /\ md = MD_Unset
    /\ ret = [x \in Indices |-> Pending]
    /\ touched = {}

Fresh == \A x \in Indices : pc[x] = "idle"

\* A call of a vectorised index: it runs to its return or its raise.
Finish(x, c) ==
    /\ Fresh
    /\ pc' = [pc EXCEPT ![x] = "done"]
    /\ ret' = [ret EXCEPT ![x] = c.ret]
    /\ touched' = IF c.reads THEN touched \cup {x} ELSE touched
    /\ UNCHANGED <<df, calc_config, threshold, duration, i, ec, md>>

GVhypoglycemia_call == Finish("GVhypoglycemia", GVhypoglycemia_calculate(df, threshold))

GVhyperglycemia_call == Finish("GVhyperglycemia", GVhyperglycemia_calculate(df, threshold))

GVtime_in_hypo_call ==
    Finish("GVtime_in_hypo", GVtime_in_hypo_calculate(df, calc_config, threshold))

GVm100_call == Finish("GVm100", GVm100_calculate(df, calc_config))

GVmage_call == Finish("GVmage", GVmage_calculate(df, calc_config))

\* The event-scan calls may start while no vectorised call has run and no
\* record has been consumed, so that both loops walk the series together.
ScanMayStart(x) ==
    /\ pc[x] = "idle"
    /\ \A y \in Vectorised : pc[y] = "idle"
    /\ i = 0

\* Entry of GVhypo_events_count.calculate up to the loop.
GVhypo_events_count_call ==
    LET x == "GVhypo_events_count"
        v == EC_Validate(threshold, duration)
        q == EC_Divide(duration)
    IN  /\ ScanMayStart(x)
        /\ IF IsRaise(v)
           THEN /\ pc' = [pc EXCEPT ![x] = "done"]
                /\ ret' = [ret EXCEPT ![x] = v]
                /\ UNCHANGED <<ec, touched>>
           ELSE IF IsRaise(q)
           THEN /\ pc' = [pc EXCEPT ![x] = "done"]
                /\ ret' = [ret EXCEPT ![x] = q]
                /\ touched' = touched \cup {x}
                /\ UNCHANGED ec
           ELSE /\ pc' = [pc EXCEPT ![x] = "loop"]
                /\ ec' = EC_Start(df, calc_config, threshold, duration)
                /\ touched' = touched \cup {x}
                /\ UNCHANGED ret
        /\ UNCHANGED <<df, calc_config, threshold, duration, i, md>>

\* Entry of GVmean_hypo_event_duration.calculate up to the loop.
GVmean_hypo_event_duration_call ==
    LET x == "GVmean_hypo_event_duration"
        v == MD_Validate(threshold, duration)
    IN  /\ ScanMayStart(x)
        /\ IF IsRaise(v)
           THEN /\ pc' = [pc EXCEPT ![x] = "done"]
                /\ ret' = [ret EXCEPT ![x] = v]
                /\ UNCHANGED <<md, touched>>
           ELSE /\ pc' = [pc EXCEPT ![x] = "loop"]
                /\ md' = MD_Start(df, calc_config, threshold, duration)
                /\ touched' = touched \cup {x}
                /\ UNCHANGED ret
        /\ UNCHANGED <<df, calc_config, threshold, duration, i, ec>>

\* One record of the series, consumed by every event-scan loop in progress.
Loop_step ==
    /\ \E x \in EventIndices : pc[x] = "loop"
    /\ i < Len(df)
    /\ i' = i + 1
    /\ ec' = IF pc["GVhypo_events_count"] = "loop"
             THEN EC_Body(ec, ec.hypoglycemias[i + 1]) ELSE ec
    /\ md' = IF pc["GVmean_hypo_event_duration"] = "loop"
             THEN MD_Body(md, md.hypoglycemias[i + 1]) ELSE md
    /\ UNCHANGED <<df, calc_config, threshold, duration, pc, ret, touched>>

GVhypo_events_count_return ==
    /\ pc["GVhypo_events_count"] = "loop"
    /\ i = Len(df)
    /\ pc' = [pc EXCEPT !["GVhypo_events_count"] = "done"]
    /\ ret' = [ret EXCEPT !["GVhypo_events_count"] = EC_Return(ec)]
    /\ UNCHANGED <<df, calc_config, threshold, duration, i, ec, md, touched>>

GVmean_hypo_event_duration_return ==
    /\ pc["GVmean_hypo_event_duration"] = "loop"
    /\ i = Len(df)
    /\ pc' = [pc EXCEPT !["GVmean_hypo_event_duration"] = "done"]
    /\ ret' = [ret EXCEPT !["GVmean_hypo_event_duration"] = MD_Return(md, calc_config)]
    /\ UNCHANGED <<df, calc_config, threshold, duration, i, ec, md, touched>>

Next ==
    \/ GVhypoglycemia_call
    \/ GVhyperglycemia_call
    \/ GVtime_in_hypo_call
    \/ GVmage_call
    \/ GVm100_call
    \/ GVhypo_events_count_call
    \/ GVmean_hypo_event_duration_call
    \/ Loop_step
    \/ GVhypo_events_count_return
    \/ GVmean_hypo_event_duration_return

Spec == Init /\ [][Next]_vars

(***************************************************************************)
(* Vocabulary of the properties, stated over the series itself.            *)
(***************************************************************************)
EC == "GVhypo_events_count"
MD == "GVmean_hypo_event_duration"

Below(series, t, k) == (~series[k].nan) /\ series[k].v < t

\* The maximal runs <<first, last>> of below-threshold samples that are
\* followed by a sample not below the threshold.
ClosedRuns(series, t) ==
    {r \in (1..Len(series)) \X (1..Len(series)) :
        /\ r[1] <= r[2]
        /\ r[2] < Len(series)
        /\ \A k \in r[1]..r[2] : Below(series, t, k)
        /\ (r[1] = 1 \/ ~Below(series, t, r[1] - 1))
        /\ ~Below(series, t, r[2] + 1)}

RunLen(r) == r[2] - r[1] + 1

\* A run qualifies when its length times the interval strictly exceeds the
\* minimum duration dur.v / dur.d minutes.
Qualifying(series, t, interval, dur) ==
    {r \in ClosedRuns(series, t) : RunLen(r) * interval * dur.d > dur.v}

\* The length of the run of below-threshold samples at the end of the series.
RECURSIVE OpenRunLen(_, _)
OpenRunLen(series, t) ==
    IF Len(series) = 0 \/ ~Below(series, t, Len(series)) THEN 0
    ELSE 1 + OpenRunLen(SubSeq(series, 1, Len(series) - 1), t)

\* A minimum duration of the configuration's domain: a non-negative number.
DurationInDomain(dur) == IsNumber(dur) /\ dur.d > 0 /\ dur.v >= 0

Returned(x) == pc[x] = "done" /\ ~IsRaise(ret[x])
Scanning(x) == pc[x] = "loop" \/ Returned(x)

\* The series extended by k samples of value g.
Extended(series, g, k) == series \o [n \in 1..k |-> g]

BelowValues(t) == {g \in Glucose \cup {Reading(t - 1)} : (~g.nan) /\ g.v < t}

(***************************************************************************)
(* C1: the count returned by GVhypo_events_count.calculate is the number   *)
(* of maximal runs of below-threshold samples that are followed by a       *)
(* sample not below the threshold (a missing reading is not below) and     *)
(* whose length times the interval strictly exceeds the minimum duration;  *)
(* a run lasting exactly the minimum duration is not counted. The minimum  *)
(* duration ranges over the configuration's domain, the non-negative       *)
(* numbers (below zero the loop also counts the empty run in front of      *)
(* every sample that is not below the threshold).                          *)
(***************************************************************************)
C1_EventCount ==
    (pc[EC] = "done" /\ TypeIsInt(threshold) /\ DurationInDomain(duration))
        => ret[EC] = PyInt(Cardinality(
                Qualifying(df, threshold.v, calc_config.interval, duration)))

\* Two runs counted, one run of exactly the minimum duration left out, one
\* run closed by a missing reading, and an open run at the end.
C1_Witness ==
    /\ pc[EC] = "done"
    /\ TypeIsInt(threshold) /\ TypeIsInt(duration) /\ duration.v > 0
    /\ ret[EC] = PyInt(2)
    /\ \E r \in ClosedRuns(df, threshold.v) :
            RunLen(r) * calc_config.interval = duration.v
    /\ \E r \in Qualifying(df, threshold.v, calc_config.interval, duration) :
            df[r[2] + 1].nan
    /\ OpenRunLen(df, threshold.v) > 0

(***************************************************************************)
(* C2: on the example series with threshold 55, interval 5 and minimum     *)
(* duration 15 the scan records exactly one episode; the leading run of 3  *)
(* samples (15 minutes) does not qualify.                                  *)
(***************************************************************************)
ExampleCall ==
    /\ df = ExampleSeries
    /\ threshold = PyInt(55)
    /\ calc_config.interval = 5
    /\ duration = PyInt(15)

\* As stated: the one episode is 13 samples (65 minutes) long.
C2_Original ==
    (ExampleCall /\ pc[MD] = "done")
        => /\ md.hypo_events_duration = <<13>>
           /\ ret[MD] = PyFloat(65, 1)

\* As the code computes it: the one episode is 12 samples (60 minutes) long.
C2_Example ==
    /\ (ExampleCall /\ Scanning(MD) /\ i < Len(df))
            => md.hypo_events_duration = <<>> /\ md.total_hypo_event_count = 0
    /\ (ExampleCall /\ Scanning(EC) /\ i < Len(df))
            => ec.total_hypo_event_count = 0
    /\ (ExampleCall /\ Scanning(MD) /\ i = Len(df))
            => md.hypo_events_duration = <<12>> /\ md.total_hypo_event_count = 1
    /\ (ExampleCall /\ pc[MD] = "done") => ret[MD] = PyFloat(60, 1)
    /\ (ExampleCall /\ pc[EC] = "done") => ret[EC] = PyInt(1)

C2_Witness ==
    /\ ExampleCall
    /\ pc[MD] = "done" /\ pc[EC] = "done"
    /\ Len(md.hypo_events_duration) = 1

(***************************************************************************)
(* C3: a run still open when the series ends is never counted and never    *)
(* contributes a duration: appending below-threshold samples to the end of *)
(* the series leaves the count and the recorded durations unchanged.       *)
(***************************************************************************)
C3_TrailingRunDiscarded ==
    /\ Returned(EC) =>
         \A k \in 1..MaxAppend : \A g \in BelowValues(threshold.v) :
            GVhypo_events_count_calculate(
                Extended(df, g, k), calc_config, threshold, duration).ret = ret[EC]
    /\ Returned(MD) =>
         \A k \in 1..MaxAppend : \A g \in BelowValues(threshold.v) :
            /\ MD_Final(Extended(df, g, k), calc_config, threshold, duration)
                    .hypo_events_duration = md.hypo_events_duration
            /\ GVmean_hypo_event_duration_calculate(
                Extended(df, g, k), calc_config, threshold, duration).ret = ret[MD]

\* Both scans have returned on a series that ends in an open run long
\* enough to qualify, after at least one recorded episode.
C3_Witness ==
    /\ Returned(EC) /\ Returned(MD)
    /\ duration.v >= 0
    /\ OpenRunLen(df, threshold.v) * calc_config.interval > duration.v
    /\ OpenRunLen(df, threshold.v) = ec.current_hypo_records
    /\ Len(md.hypo_events_duration) >= 1

(***************************************************************************)
(* C4: with no qualifying episode GVmean_hypo_event_duration.calculate     *)
(* returns nan, the undefined-result marker: not zero and not an error.    *)
(* The minimum duration is a non-negative int, as for C1.                  *)
(***************************************************************************)
C4_UndefinedMean ==
    (/\ pc[MD] = "done"
     /\ TypeIsInt(threshold) /\ TypeIsInt(duration) /\ DurationInDomain(duration)
     /\ Qualifying(df, threshold.v, calc_config.interval, duration) = {})
        => ret[MD] = PyNaN

\* nan returned for a series whose only long run is the open one at its end.
C4_Witness ==
    /\ pc[MD] = "done"
    /\ TypeIsInt(duration) /\ duration.v >= 0
    /\ IsNaN(ret[MD])
    /\ Len(df) > 0
    /\ OpenRunLen(df, threshold.v) * calc_config.interval > duration.v

(***************************************************************************)
(* C5: a threshold-taking index called with a threshold that is not an int *)
(* or that is negative raises ValueError before the series is read or any  *)
(* local is computed.                                                      *)
(***************************************************************************)
ThresholdIndices ==
    {"GVhypoglycemia", "GVhyperglycemia", "GVhypo_events_count", "GVtime_in_hypo",
     "GVmean_hypo_event_duration"}

Rejected(x) ==
    /\ ret[x] = Raised("ValueError")
    /\ x \notin touched
    /\ (x = EC => ec = EC_Unset)
    /\ (x = MD => md = MD_Unset)

C5_ThresholdValidated ==
    \A x \in ThresholdIndices :
        (pc[x] = "done" /\ (threshold.type # "int" \/ threshold.v < 0)) => Rejected(x)

(***************************************************************************)
(* C6: GVtime_in_hypo.calculate returns the number of samples below the    *)
(* threshold times the interval, with no minimum-duration filter; it is at *)
(* least the interval times the total length of the episodes the event     *)
(* scan records; on [60,80,60,80], threshold 70, interval 5 it is 10.      *)
(***************************************************************************)
C6_TimeInHypo ==
    (pc["GVtime_in_hypo"] = "done" /\ TypeIsInt(threshold)) =>
        /\ ret["GVtime_in_hypo"] =
              PyInt(Cardinality({k \in 1..Len(df) : Below(df, threshold.v, k)})
                    * calc_config.interval)
        /\ \A dur \in {d \in Durations : TypeIsInt(d)} :
              ret["GVtime_in_hypo"].v >=
                 calc_config.interval
                 * SumSeq(MD_Final(df, calc_config, threshold, dur).hypo_events_duration)
        /\ (df = TimeInHypoSeries /\ threshold = PyInt(70) /\ calc_config.interval = 5)
              => ret["GVtime_in_hypo"] = PyInt(10)

\* The example: two isolated samples below 70, no episode longer than 5 minutes.
C6_Witness ==
    /\ pc["GVtime_in_hypo"] = "done"
    /\ df = TimeInHypoSeries /\ threshold = PyInt(70) /\ calc_config.interval = 5
    /\ duration = PyInt(5)
    /\ Qualifying(df, threshold.v, calc_config.interval, duration) = {}
    /\ ret["GVtime_in_hypo"].v = 10

(***************************************************************************)
(* C7: a sample equal to the threshold is counted neither by               *)
(* GVhypoglycemia nor by GVhyperglycemia and closes the current run of the *)
(* event scan; hypo count + hyper count + samples equal to the threshold + *)
(* missing samples is the length of the series.                            *)
(***************************************************************************)
EqualCount(series, t) ==
    Cardinality({k \in 1..Len(series) : (~series[k].nan) /\ series[k].v = t})

MissingCount(series) == Cardinality({k \in 1..Len(series) : series[k].nan})

C7_EqualIsInRange ==
    /\ (pc["GVhypoglycemia"] = "done" /\ TypeIsInt(threshold)) =>
          /\ ret["GVhypoglycemia"] =
                PyInt(Cardinality({k \in 1..Len(df) : Below(df, threshold.v, k)}))
          /\ ret["GVhypoglycemia"].v + GVhyperglycemia_calculate(df, threshold).ret.v
                + EqualCount(df, threshold.v) + MissingCount(df) = Len(df)
    /\ (pc["GVhyperglycemia"] = "done" /\ TypeIsInt(threshold)) =>
          /\ ret["GVhyperglycemia"] =
                PyInt(Cardinality({k \in 1..Len(df) :
                                     (~df[k].nan) /\ df[k].v > threshold.v}))
          /\ GVhypoglycemia_calculate(df, threshold).ret.v + ret["GVhyperglycemia"].v
                + EqualCount(df, threshold.v) + MissingCount(df) = Len(df)
    /\ \A k \in 1..Len(df) :
          (i = k /\ (~df[k].nan) /\ df[k].v = threshold.v) =>
              /\ (pc[EC] = "loop" => ec.current_hypo_records = 0)
              /\ (pc[MD] = "loop" => md.current_hypo_records = 0)

\* A series with a sample below, one equal to, one above the threshold and a
\* missing one, the equal one right after the one below.
C7_Witness ==
    /\ pc["GVhypoglycemia"] = "done"
    /\ TypeIsInt(threshold)
    /\ ret["GVhypoglycemia"].v = 1
    /\ EqualCount(df, threshold.v) = 1
    /\ MissingCount(df) = 1
    /\ Len(df) = 4
    /\ Below(df, threshold.v, 1) /\ df[2].v = threshold.v /\ ~df[2].nan

(***************************************************************************)
(* C8: every index constructed from a valid series and configuration and   *)
(* called with valid parameters returns a number.                          *)
(***************************************************************************)
ValidCall ==
    /\ Len(df) >= 1
    /\ TypeIsInt(threshold) /\ threshold.v >= 0
    /\ TypeIsInt(duration) /\ duration.v >= 0

C8_NumericResult ==
    \A x \in Indices : (pc[x] = "done" /\ ValidCall) => IsNumber(ret[x])

(***************************************************************************)
(* C9: both event indices raise ValueError, before the scan starts, when   *)
(* the minimum duration is not an int.                                     *)
(***************************************************************************)
C9_DurationValidated ==
    \A x \in EventIndices :
        (pc[x] # "idle" /\ TypeIsInt(threshold) /\ ~TypeIsInt(duration)) => Rejected(x)

(***************************************************************************)
(* C10: stepped over the same samples, the two event scans keep equal run  *)
(* counters; the count GVhypo_events_count returns is the number of        *)
(* episode lengths GVmean_hypo_event_duration collects, each strictly      *)
(* greater than duration / interval.                                       *)
(***************************************************************************)
C10_ScansAgree ==
    (Scanning(EC) /\ Scanning(MD)) =>
        /\ ec.current_hypo_records = md.current_hypo_records
        /\ ec.total_hypo_event_count = md.total_hypo_event_count
        /\ ec.total_hypo_event_count = Len(md.hypo_events_duration)
        /\ \A k \in 1..Len(md.hypo_events_duration) :
              md.hypo_events_duration[k] * calc_config.interval * duration.d > duration.v
        /\ pc[EC] = "done" => ret[EC] = PyInt(Len(md.hypo_events_duration))

\* Both scans have returned after walking a series with two recorded episodes.
C10_Witness ==
    /\ Returned(EC) /\ Returned(MD)
    /\ duration.v > 0
    /\ Len(md.hypo_events_duration) = 2
    /\ ret[EC] = PyInt(2)

====
